---------------------------- MODULE Spec2Model ----------------------------
(***************************************************************************)
(* Model of the real-time chess rooms of app.py (Flask-SocketIO handlers   *)
(* on_join_game, on_make_move, on_reset over the process-wide dict games), *)
(* and of its quiz and leaderboard routes (api_quiz_start, api_quiz_submit,*)
(* api_leaderboard over the question bank and the leaderboard table).      *)
(*                                                                         *)
(* Python strings that the code takes apart (the 'uci' field) are          *)
(* sequences of one-character strings; a dict is a function whose DOMAIN   *)
(* is the set of its keys, so data.get(k) is a test on DOMAIN data.        *)
(*                                                                         *)
(* The python-chess calls the handlers make (chess.Board(), board.fen(),   *)
(* chess.Move.from_uci, board.legal_moves, board.push) are modelled on a   *)
(* full 8x8 board for knight moves and pawn pushes/captures; the move      *)
(* inputs of the model only name knights and pawns, and no reachable       *)
(* position of the model has a king in check.                              *)
(*                                                                         *)
(* Room ids and connection ids (sids) are taken from disjoint sets: no     *)
(* client names a room after another connection's sid.  Connections do     *)
(* not disconnect.                                                         *)
(*                                                                         *)
(* The HTTP routes have specifications of their own (SpecQuiz, SpecBoard): *)
(* they share no state with the Socket.IO handlers.  A question of the     *)
(* bank is named by its place in the bank file; random.sample is modelled  *)
(* by its selection loop over a family of pseudo-random streams; the       *)
(* leaderboard table may hold rows of earlier runs of the process.         *)
(***************************************************************************)
EXTENDS Integers, Sequences, FiniteSets, TLC

(* ------------------------------ bounds -------------------------------- *)

\* Accepted moves per room since its creation or last reset.
MaxPly == 2

\* join_game handlers in flight at the same time.
MaxInFlight == 2

\* Connection ids (request.sid).
Conns == {"a", "b"}

\* Room ids the registry can hold; "default" is the sentinel of the code.
Rooms == {"default", "r1"}

(* --------------------------- position engine -------------------------- *)

FileChars == <<"a", "b", "c", "d", "e", "f", "g", "h">>
RankChars == <<"1", "2", "3", "4", "5", "6", "7", "8">>
DigitChars == <<"1", "2", "3", "4", "5", "6", "7", "8">>
PromoChars == {"n", "b", "r", "q", "k", "p"}

WhitePieces == {"P", "N", "B", "R", "Q", "K"}
BlackPieces == {"p", "n", "b", "r", "q", "k"}
Empty == "."

IndexOf(seq, ch) ==
    IF \E i \in DOMAIN seq : seq[i] = ch
    THEN CHOOSE i \in DOMAIN seq : seq[i] = ch
    ELSE 0

EmptyRank == [f \in 1..8 |-> Empty]

\* chess.Board(): the standard starting position.  pieces[rank][file].
NewBoard ==
    [ pieces |-> << <<"R", "N", "B", "Q", "K", "B", "N", "R">>,
                    [f \in 1..8 |-> "P"],
                    EmptyRank, EmptyRank, EmptyRank, EmptyRank,
                    [f \in 1..8 |-> "p"],
                    <<"r", "n", "b", "q", "k", "b", "n", "r">> >>,
      turn     |-> "w",
      castling |-> "KQkq",
      ep       |-> <<0, 0>>,
      halfmove |-> 0,
      fullmove |-> 1 ]

PieceAt(board, sq) == board.pieces[sq[2]][sq[1]]

OnBoard(sq) == sq[1] \in 1..8 /\ sq[2] \in 1..8

OwnPieces(board) == IF board.turn = "w" THEN WhitePieces ELSE BlackPieces
EnemyPieces(board) == IF board.turn = "w" THEN BlackPieces ELSE WhitePieces

\* Number of accepted moves since the starting position.
Ply(board) == 2 * (board.fullmove - 1) + (IF board.turn = "b" THEN 1 ELSE 0)

\* Mutant: any text of four or more characters is read by its first four.
FromUciPrefix(data) ==
    LET bad == [ok |-> FALSE, from |-> <<0, 0>>, to |-> <<0, 0>>, promotion |-> ""]
    IN  IF "uci" \notin DOMAIN data THEN bad
        ELSE IF Len(data.uci) < 4 THEN bad
        ELSE [ok |-> TRUE,
              from |-> <<IndexOf(FileChars, data.uci[1]), IndexOf(RankChars, data.uci[2])>>,
              to |-> <<IndexOf(FileChars, data.uci[3]), IndexOf(RankChars, data.uci[4])>>,
              promotion |-> ""]

\* chess.Move.from_uci(uci): ok is FALSE where the library raises.
\* A missing field (None) raises TypeError on len(); "0000" is the null move.
FromUci(data) ==
    LET bad == [ok |-> FALSE, from |-> <<0, 0>>, to |-> <<0, 0>>, promotion |-> ""]
    IN  IF "uci" \notin DOMAIN data THEN bad
        ELSE LET uci == data.uci
             IN  IF uci = <<"0", "0", "0", "0">>
                 THEN [ok |-> TRUE, from |-> <<0, 0>>, to |-> <<0, 0>>, promotion |-> ""]
                 ELSE IF Len(uci) < 4 \/ Len(uci) > 5 THEN bad
                 ELSE LET from == <<IndexOf(FileChars, uci[1]), IndexOf(RankChars, uci[2])>>
                          to   == <<IndexOf(FileChars, uci[3]), IndexOf(RankChars, uci[4])>>
                      IN  IF ~OnBoard(from) \/ ~OnBoard(to) THEN bad
                          ELSE IF Len(uci) = 5 /\ uci[5] \notin PromoChars THEN bad
                          ELSE IF from = to THEN bad
                          ELSE [ok |-> TRUE, from |-> from, to |-> to,
                                promotion |-> IF Len(uci) = 5 THEN uci[5] ELSE ""]

KnightJump(from, to) ==
    LET df == IF to[1] > from[1] THEN to[1] - from[1] ELSE from[1] - to[1]
        dr == IF to[2] > from[2] THEN to[2] - from[2] ELSE from[2] - to[2]
    IN  (df = 1 /\ dr = 2) \/ (df = 2 /\ dr = 1)

PawnMove(board, from, to) ==
    LET dir   == IF board.turn = "w" THEN 1 ELSE -1
        home  == IF board.turn = "w" THEN 2 ELSE 7
        last  == IF board.turn = "w" THEN 8 ELSE 1
    IN  /\ to[2] # last
        /\ \/ /\ to[1] = from[1]
              /\ to[2] = from[2] + dir
              /\ PieceAt(board, to) = Empty
           \/ /\ to[1] = from[1]
              /\ from[2] = home
              /\ to[2] = from[2] + 2 * dir
              /\ PieceAt(board, <<from[1], from[2] + dir>>) = Empty
              /\ PieceAt(board, to) = Empty
           \/ /\ to[1] \in {from[1] - 1, from[1] + 1}
              /\ to[2] = from[2] + dir
              /\ PieceAt(board, to) \in EnemyPieces(board)

\* move in board.legal_moves
IsLegal(board, move) ==
    /\ move.ok
    /\ OnBoard(move.from) /\ OnBoard(move.to)
    /\ move.promotion = ""
    /\ PieceAt(board, move.from) \in OwnPieces(board)
    /\ PieceAt(board, move.to) \notin OwnPieces(board)
    /\ \/ /\ PieceAt(board, move.from) \in {"N", "n"}
          /\ KnightJump(move.from, move.to)
       \/ /\ PieceAt(board, move.from) \in {"P", "p"}
          /\ PawnMove(board, move.from, move.to)

\* board.push(move) for a legal move of the fragment.
Push(board, move) ==
    LET piece   == PieceAt(board, move.from)
        capture == PieceAt(board, move.to) # Empty
        pawn    == piece \in {"P", "p"}
        double  == pawn /\ (move.to[2] - move.from[2]) \in {2, -2}
    IN  [ pieces |-> [board.pieces EXCEPT ![move.from[2]][move.from[1]] = Empty,
                                            ![move.to[2]][move.to[1]] = piece],
          turn     |-> IF board.turn = "w" THEN "b" ELSE "w",
          castling |-> board.castling,
          ep       |-> IF double
                       THEN <<move.from[1], (move.from[2] + move.to[2]) \div 2>>
                       ELSE <<0, 0>>,
          halfmove |-> IF pawn \/ capture THEN 0 ELSE board.halfmove + 1,
          fullmove |-> IF board.turn = "b" THEN board.fullmove + 1 ELSE board.fullmove ]

\* One rank of the FEN placement field, from file f on, after a run of
\* empty squares: pieces as letters, runs of empty squares as their length.
RECURSIVE FenRank(_, _, _)
FenRank(rank, f, run) ==
    IF f > 8
    THEN IF run > 0 THEN DigitChars[run] ELSE ""
    ELSE IF rank[f] = Empty
         THEN FenRank(rank, f + 1, run + 1)
         ELSE (IF run > 0 THEN DigitChars[run] ELSE "")
              \o rank[f] \o FenRank(rank, f + 1, 0)

\* The placement field: ranks r down to 1.
RECURSIVE FenPlacement(_, _)
FenPlacement(pieces, r) ==
    IF r = 1
    THEN FenRank(pieces[1], 1, 0)
    ELSE FenRank(pieces[r], 1, 0) \o "/" \o FenPlacement(pieces, r - 1)

\* The en passant field: the square is shown only when a pawn of the side
\* to move stands next to the pawn that just made a double step.
FenEp(board) ==
    LET own  == IF board.turn = "w" THEN "P" ELSE "p"
        rnk  == IF board.turn = "w" THEN 5 ELSE 4
        f    == board.ep[1]
    IN  IF board.ep = <<0, 0>> THEN "-"
        ELSE IF \E g \in {f - 1, f + 1} :
                    g \in 1..8 /\ board.pieces[rnk][g] = own
             THEN FileChars[f] \o RankChars[board.ep[2]]
             ELSE "-"

\* board.fen(): placement, side to move, castling, en passant, halfmove
\* clock and fullmove number, separated by spaces.
Fen(board) ==
    FenPlacement(board.pieces, 8) \o " " \o board.turn \o " " \o board.castling
        \o " " \o FenEp(board) \o " " \o ToString(board.halfmove)
        \o " " \o ToString(board.fullmove)

(* ------------------------------- inputs ------------------------------- *)

\* Python None where a payload carries no string.
None == "None"

\* Values of the 'uci' field: legal at the start (e2e4), legal only once
\* it is black's turn (g8f6), legal only once the e-pawn stands on e4
\* (e4e5), well-formed but never legal (a pawn three squares forward), and
\* unparsable (empty, six characters).
UciFields ==
    { <<"e", "2", "e", "4">>, <<"g", "8", "f", "6">>, <<"e", "4", "e", "5">>,
      <<"e", "2", "e", "5">>, <<>>, <<"e", "7", "e", "5", "e", "5">> }

\* Event payloads are dicts with or without each of the two fields; "" is
\* falsy in Python like a missing field.  Every kind of payload is sent for
\* the room "default"; the second room gets the joins of one connection and
\* one move, which is legal once and illegal from then on.
NoRoomData == [k \in {} |-> ""]
DefaultRoomData == {NoRoomData, [room |-> ""], [room |-> "default"]}
OtherRoomData == {[room |-> "r1"]}

JoinInputs ==
    (Conns \X DefaultRoomData) \cup ({"b"} \X OtherRoomData)

ResetInputs ==
    (Conns \X DefaultRoomData) \cup ({"b"} \X OtherRoomData)

MoveData == { [room |-> "default", uci |-> u] : u \in UciFields }
MoveDataNoRoom == { [uci |-> u] : u \in {<<"e", "2", "e", "4">>, <<>>} }
MoveDataNoUci == { [room |-> "default"] }
MoveDataOther == { [room |-> "r1", uci |-> <<"e", "2", "e", "4">>] }

\* Mutant: a payload without a room id is taken to the other room.
RoomOfElsewhere(data) ==
    IF "room" \in DOMAIN data /\ data.room # "" THEN data.room ELSE "r1"

\* data.get('room') or 'default'
RoomOf(data) ==
    IF "room" \in DOMAIN data /\ data.room # "" THEN data.room ELSE "default"

\* The characters of a string, put together again.
RECURSIVE Str(_)
Str(chars) == IF chars = <<>> THEN "" ELSE Head(chars) \o Str(Tail(chars))

\* data.get('uci')
UciOf(data) == IF "uci" \in DOMAIN data THEN Str(data.uci) ELSE None

(* -------------------------------- state ------------------------------- *)

VARIABLES
    games,      \* the dict games: room id -> {'board', 'players', 'fen'}
    channel,    \* Socket.IO rooms entered with join_room: room id -> sids
    pending,    \* join_game handlers that ran join_room and not yet the rest
    last,       \* the event whose handler step ran last, and how it ended
    sent,       \* the messages that step emitted
    log,        \* history: room id -> the move_made payloads broadcast for it
                \* since the room was created or last reset, oldest first
    questions,  \* what load_quiz() returns: the question bank
    table,      \* the rows of the leaderboard table, in rowid order
    now,        \* CURRENT_TIMESTAMP of the database, in seconds
    response    \* the HTTP response of the last request

\* The state of the HTTP routes, which the Socket.IO handlers leave alone.
http == <<questions, table, now, response>>

\* The state of the Socket.IO handlers, which the HTTP routes leave alone.
chess == <<games, channel, pending, last, sent, log>>

vars == <<games, channel, pending, last, sent, log, questions, table, now, response>>

\* Mutant: a message for a room goes to every connection.
MembersEveryone(target) == IF target \in Conns THEN {target} ELSE Conns

\* emit(event, payload, room=target / to=target): the recipients are the
\* connection itself for a sid, the members of the channel for a room id.
Members(target) == IF target \in Conns THEN {target} ELSE channel[target]

Message(event, target, fen, uci, msg) ==
    [event |-> event, to |-> target, rcpts |-> Members(target),
     fen |-> fen, uci |-> uci, msg |-> msg]

\* What the room of an event was when its handler ran: without a Room, with
\* a Room that has both accepted moves and participants, or any other Room.
Prior(room) ==
    IF room \notin DOMAIN games THEN "absent"
    ELSE IF games[room].board # NewBoard /\ games[room].players # <<>> THEN "played"
    ELSE "idle"

\* request.sid, the room the payload resolves to, and the branch the handler
\* took.  first marks a join that found a Room although its room id had
\* none when the event arrived (and was not reset in between).
Event(op, sid, room, res, first) ==
    [op |-> op, sid |-> sid, room |-> room, res |-> res, first |-> first,
     prior |-> IF room \in Rooms THEN Prior(room) ELSE "absent"]

\* {'board': board, 'players': [], 'fen': board.fen()} for board = chess.Board()
NewGame == [board |-> NewBoard, players |-> <<>>, fen |-> Fen(NewBoard)]

\* games[room] = game
Store(room, game) ==
    [r \in (DOMAIN games) \cup {room} |-> IF r = room THEN game ELSE games[r]]

InList(sid, players) == \E i \in DOMAIN players : players[i] = sid

\* Mutant: the lookup is skipped and every join makes a fresh game.
JoinLookupFresh(room) == NewGame

\* game = games.get(room); if not game: a fresh game
JoinLookup(room) ==
    IF room \in DOMAIN games THEN games[room] ELSE NewGame

\* Mutant: the sid is appended without the membership test.
AddPlayerAlways(game, sid) == [game EXCEPT !.players = Append(@, sid)]

\* if sid not in game['players']: game['players'].append(sid)
AddPlayer(game, sid) ==
    IF InList(sid, game.players)
    THEN game
    ELSE [game EXCEPT !.players = Append(@, sid)]

\* Mutant: the join reply goes to the room instead of the sid.
JoinReplyToRoom(sid, room, game) == Message("game_state", room, game.fen, None, "")

\* Mutant: the join reply carries the starting serialization.
JoinReplyStartFen(sid, room, game) == Message("game_state", sid, Fen(NewBoard), None, "")

\* emit('game_state', {'fen': game['fen']}, room=sid)
JoinReply(sid, room, game) == Message("game_state", sid, game.fen, None, "")

\* Mutant: the move is pushed and game['fen'] is left as it was.
ApplyMoveStaleFen(game, move) == [game EXCEPT !.board = Push(game.board, move)]

\* board.push(move); game['fen'] = board.fen()
ApplyMove(game, move) ==
    LET board == Push(game.board, move)
    IN  [game EXCEPT !.board = board, !.fen = Fen(board)]

\* Mutant: the move is pushed before the legality test.
AttemptMovePushFirst(game, data) ==
    LET move == FromUci(data)
    IN  IF ~move.ok THEN game ELSE ApplyMove(game, move)

\* The game on_make_move leaves: only the legal branch touches it.
AttemptMove(game, data) ==
    LET move == FromUci(data)
    IN  IF move.ok /\ IsLegal(game.board, move) THEN ApplyMove(game, move) ELSE game

\* Mutant: legality is judged on the position the room started from, as if
\* the attempt had read the position before earlier moves were applied.
OutcomeOnStart(game, data) ==
    LET move == FromUci(data)
    IN  IF ~move.ok THEN "malformed"
        ELSE IF IsLegal(NewBoard, move) THEN "moved"
        ELSE "illegal"

\* The branch on_make_move takes: the except around from_uci, the legal
\* branch, or the final else.
Outcome(game, data) ==
    LET move == FromUci(data)
    IN  IF ~move.ok THEN "malformed"
        ELSE IF IsLegal(game.board, move) THEN "moved"
        ELSE "illegal"

\* Mutant: the notice goes to the room instead of the sid.
NotFoundToRoom(sid, room) == Message("error", room, None, None, "game not found")

\* emit('error', {'msg': 'game not found'}, to=sid)
NotFoundReply(sid, room) == Message("error", sid, None, None, "game not found")

\* emit('invalid_move', {'msg': 'invalid uci'}, to=sid)
MalformedReply(sid, room) == Message("invalid_move", sid, None, None, "invalid uci")

\* emit('invalid_move', {'msg': 'illegal move'}, to=sid)
IllegalReply(sid, room) == Message("invalid_move", sid, None, None, "illegal move")

\* Mutant: move_made goes to the mover instead of the room.
MoveMadeToSender(sid, room, game, uci) ==
    Message("move_made", sid, Fen(game.board), uci, "")

\* Mutant: move_made carries the serialized state from before the move.
MoveMadeOldFen(sid, room, game, uci) ==
    Message("move_made", room, games[room].fen, uci, "")

\* Mutant: the move of a connection that is not a participant is announced
\* to that connection only.
MoveMadeByParticipant(sid, room, game, uci) ==
    Message("move_made", IF InList(sid, game.players) THEN room ELSE sid,
            Fen(game.board), uci, "")

\* emit('move_made', {'uci': uci, 'fen': board.fen()}, room=room)
MoveMade(sid, room, game, uci) ==
    Message("move_made", room, Fen(game.board), uci, "")

\* Mutant: the reset keeps the players of the Room it replaces.
ResetStoreKeepPlayers(room) ==
    Store(room, [NewGame EXCEPT !.players = JoinLookup(room).players])

\* Mutant: the reset only touches a Room that exists.
ResetStoreIfPresent(room) ==
    IF room \in DOMAIN games THEN Store(room, NewGame) ELSE games

\* Mutant: the reset deletes the entry of the room.
ResetStoreDrop(room) == [r \in (DOMAIN games) \ {room} |-> games[r]]

\* games[room] = {...fresh game...}
ResetStore(room) == Store(room, NewGame)

\* Mutant: the state after a reset goes to the connection that asked for it.
ResetBroadcastToSender(sid, room) == Message("game_state", sid, Fen(NewBoard), None, "")

\* emit('game_state', {'fen': board.fen()}, room=room)
ResetBroadcast(sid, room) == Message("game_state", room, Fen(NewBoard), None, "")

\* The move_made payloads among the messages of a step, for the history.
Broadcasts(msgs) ==
    IF \E m \in msgs : m.event = "move_made"
    THEN LET m == CHOOSE m \in msgs : m.event = "move_made"
         IN  <<[uci |-> m.uci, fen |-> m.fen]>>
    ELSE <<>>

\* No request has been answered yet.
NoResponse == [route |-> "", status |-> 0, error |-> "", body |-> <<>>]

\* games = {} at import; no connection, no message.
InitChess ==
    /\ games = [r \in {} |-> NewGame]
    /\ channel = [r \in Rooms |-> {}]
    /\ pending = {}
    /\ last = Event("none", "", "", "none", FALSE)
    /\ sent = {}
    /\ log = [r \in Rooms |-> <<>>]

Init ==
    /\ InitChess
    /\ questions = <<>>
    /\ table = <<>>
    /\ now = 0
    /\ response = NoResponse

(* ------------------------------ handlers ------------------------------ *)

\* on_join_game up to join_room(room): the connection enters the channel.
\* first records that games has no entry for the room at that point.
JoinEnter(sid, data) ==
    LET room == RoomOf(data)
    IN  /\ Cardinality(pending) < MaxInFlight
        /\ \A p \in pending : ~(p.sid = sid /\ p.room = room)
        /\ channel' = [channel EXCEPT ![room] = @ \cup {sid}]
        /\ pending' = pending \cup
              {[sid |-> sid, room |-> room, first |-> room \notin DOMAIN games]}
        /\ last' = Event("join_game", sid, room, "entered", FALSE)
        /\ sent' = {}
        /\ UNCHANGED <<games, log>>
        /\ UNCHANGED http

\* on_join_game from sid = request.sid to the emit: lookup or creation,
\* the append to players, and the game_state reply to the sid alone.
JoinFinish(p) ==
    \E game \in {AddPlayer(JoinLookup(p.room), p.sid)} :
        /\ p \in pending
        /\ pending' = pending \ {p}
        /\ games' = Store(p.room, game)
        /\ sent' = {JoinReply(p.sid, p.room, game)}
        /\ last' = Event("join_game", p.sid, p.room,
                         IF p.room \notin DOMAIN games THEN "created"
                         ELSE IF InList(p.sid, games[p.room].players) THEN "present"
                         ELSE "added",
                         p.first /\ p.room \in DOMAIN games)
        /\ UNCHANGED <<channel, log>>
        /\ UNCHANGED http

\* on_make_move, whole handler.
MakeMove(sid, data) ==
    LET room == RoomOf(data)
    IN  /\ IF room \notin DOMAIN games
           THEN /\ last' = Event("make_move", sid, room, "not_found", FALSE)
                /\ sent' = {NotFoundReply(sid, room)}
                /\ UNCHANGED games
                /\ UNCHANGED log
           ELSE \E res \in {Outcome(games[room], data)} :
                    /\ res = "moved" => Ply(games[room].board) < MaxPly
                    /\ last' = Event("make_move", sid, room, res, FALSE)
                    /\ \E game \in {AttemptMove(games[room], data)} :
                          /\ sent' = { CASE res = "malformed" -> MalformedReply(sid, room)
                                         [] res = "illegal" -> IllegalReply(sid, room)
                                         [] res = "moved" ->
                                              MoveMade(sid, room, game, UciOf(data)) }
                          /\ games' = Store(room, game)
                    /\ log' = [log EXCEPT ![room] = @ \o Broadcasts(sent')]
        /\ UNCHANGED <<channel, pending>>
        /\ UNCHANGED http

\* on_reset, whole handler.  A join in flight for the room is no longer a
\* first join.
Reset(sid, data) ==
    LET room == RoomOf(data)
    IN  /\ games' = ResetStore(room)
        /\ sent' = {ResetBroadcast(sid, room)}
        /\ last' = Event("reset_game", sid, room, "reset", FALSE)
        /\ pending' = { IF p.room = room THEN [p EXCEPT !.first = FALSE] ELSE p
                        : p \in pending }
        /\ log' = [log EXCEPT ![room] = <<>>]
        /\ UNCHANGED channel
        /\ UNCHANGED http

JoinEnterStep == \E in \in JoinInputs : JoinEnter(in[1], in[2])
JoinFinishStep == \E p \in pending : JoinFinish(p)
MakeMoveStep ==
    \E sid \in Conns :
        \/ \E data \in MoveData : MakeMove(sid, data)
        \/ \E data \in MoveDataNoRoom : MakeMove(sid, data)
        \/ \E data \in MoveDataNoUci : MakeMove(sid, data)
        \/ \E data \in MoveDataOther : MakeMove(sid, data)
ResetStep == \E in \in ResetInputs : Reset(in[1], in[2])

Next == JoinEnterStep \/ JoinFinishStep \/ MakeMoveStep \/ ResetStep

Spec == Init /\ [][Next]_vars

\* The clients that never name a room: every payload comes without the
\* 'room' field, with every kind of 'uci' field or with none.
OmittedMoveData == { [uci |-> u] : u \in UciFields } \cup {NoRoomData}

JoinOmitted == \E sid \in Conns : JoinEnter(sid, NoRoomData)
MoveOmitted == \E sid \in Conns : \E data \in OmittedMoveData : MakeMove(sid, data)
ResetOmitted == \E sid \in Conns : Reset(sid, NoRoomData)

NextOmitted == JoinOmitted \/ JoinFinishStep \/ MoveOmitted \/ ResetOmitted

SpecOmitted == Init /\ [][NextOmitted]_vars

(* ------------------------------ quiz route ---------------------------- *)

\* Largest question bank, and the number of pseudo-random streams tried.
MaxBank == 17
MaxSeed == 5

\* The size of a quiz: the 15 of api_quiz_start.
SampleSize == 15

\* What quiz_questions.json can hold: banks of 0 (also the missing file) to
\* MaxBank questions; a question is named by its number in the file.
Banks == { [i \in 1..n |-> i] : n \in 0..MaxBank }

\* The pseudo-random streams: the i-th call of randbelow(m) in a request
\* answers with a number below m that depends on the stream.
Seeds == (0..MaxSeed) \X (0..MaxSeed)

\* random._randbelow(m) at the i-th selection of a sample.
RandBelow(seed, i, m) == (seed[1] * i + seed[2]) % m

\* pool[j] = pool[n - i - 1]: the selected place is filled with the last
\* question still in the pool (of m questions, places counted from 1).
PoolWithout(pool, j, m) == [pool EXCEPT ![j] = pool[m]]

\* The selection loop of random.sample for a population this small:
\* result[i] = pool[j] for j = randbelow(n - i), then the pool shrinks.
RECURSIVE Select(_, _, _, _)
Select(pool, i, k, seed) ==
    IF i = k THEN <<>>
    ELSE LET m == Len(pool) - i
             j == RandBelow(seed, i, m) + 1
         IN  <<pool[j]>> \o Select(PoolWithout(pool, j, m), i + 1, k, seed)

\* random.sample(population, k): ValueError when the sample is larger than
\* the population.
Sample(population, k, seed) ==
    IF k > Len(population)
    THEN [ok |-> FALSE, result |-> <<>>]
    ELSE [ok |-> TRUE, result |-> Select(population, 0, k, seed)]

\* Mutant: a bank one question short passes the test.
TooFewLenient(bank) == Len(bank) < SampleSize - 1

\* len(questions) < 15
TooFew(bank) == Len(bank) < SampleSize

\* The response of a route: jsonify(...) with its status code; an uncaught
\* exception is a 500.
Json(route, status, error, body) ==
    [route |-> route, status |-> status, error |-> error, body |-> body]

\* api_quiz_start, whole handler.
QuizStart(seed) ==
    /\ response' =
          IF TooFew(questions)
          THEN Json("quiz_start", 400, "Not enough questions in bank", <<>>)
          ELSE LET selected == Sample(questions, SampleSize, seed)
               IN  IF selected.ok
                   THEN Json("quiz_start", 200, "", selected.result)
                   ELSE Json("quiz_start", 500, "ValueError", <<>>)
    /\ UNCHANGED <<questions, table, now>>
    /\ UNCHANGED chess

QuizStartStep == \E seed \in Seeds : QuizStart(seed)

InitQuiz ==
    /\ InitChess
    /\ questions \in Banks
    /\ table = <<>>
    /\ now = 0
    /\ response = NoResponse

NextQuiz == QuizStartStep

SpecQuiz == InitQuiz /\ [][NextQuiz]_vars

(* -------------------------- leaderboard routes ------------------------- *)

\* Submissions accepted on top of the table the process found on disk.
MaxSubmits == 3

\* LIMIT 50 of api_leaderboard.
RowLimit == 50

\* Rows of a table that was filled before the process started.
OldCount == 49

\* The leaderboard table on disk when the process starts (CREATE TABLE IF
\* NOT EXISTS keeps it): empty, or OldCount rows of earlier runs, several of
\* them with the same score and the same timestamp.
OldRow(i) == [name |-> "old", score |-> 9 + (i % 3), total |-> 15, timestamp |-> i \div 10]
Tables == { <<>>, [i \in 1..OldCount |-> OldRow(i)] }

\* request.json of a submission: any of the three fields may be missing;
\* score and total come as the text of the JSON value.
Payloads ==
    { [name |-> "A", score |-> <<"1", "0">>, total |-> <<"1", "5">>],
      [name |-> "B", score |-> <<"1", "2">>, total |-> <<"1", "5">>],
      [name |-> "A", score |-> <<"8">>, total |-> <<"1", "5">>],
      [k \in {} |-> ""],
      [name |-> "C", score |-> <<"x">>] }

\* The decimal digits of int(): the value so far, then the next digit.
RECURSIVE Digits(_, _)
Digits(chars, value) ==
    IF chars = <<>> THEN [ok |-> TRUE, value |-> value]
    ELSE IF IndexOf(DigitChars, Head(chars)) = 0 /\ Head(chars) # "0"
         THEN [ok |-> FALSE, value |-> 0]
         ELSE Digits(Tail(chars), 10 * value + IndexOf(DigitChars, Head(chars)))

\* int(payload.get(key, 0)): ok is FALSE where int() raises ValueError.
IntField(payload, key) ==
    IF key \notin DOMAIN payload THEN [ok |-> TRUE, value |-> 0]
    ELSE IF payload[key] = <<>> THEN [ok |-> FALSE, value |-> 0]
    ELSE Digits(payload[key], 0)

\* payload.get("name", "Anonymous")
NameField(payload) == IF "name" \in DOMAIN payload THEN payload.name ELSE "Anonymous"

\* Submissions accepted so far on top of the table found on disk.
Submitted == IF Len(table) >= OldCount THEN Len(table) - OldCount ELSE Len(table)

\* api_quiz_submit, whole handler.  The clock of the database is read by
\* the INSERT only; dt is the time since the last INSERT, in the seconds of
\* CURRENT_TIMESTAMP.
QuizSubmit(payload, dt) ==
    LET score == IntField(payload, "score")
        total == IntField(payload, "total")
    IN  /\ Submitted < MaxSubmits
        /\ IF score.ok /\ total.ok
           THEN /\ now' = now + dt
                /\ table' = Append(table, [name |-> NameField(payload),
                                           score |-> score.value,
                                           total |-> total.value,
                                           timestamp |-> now'])
                /\ response' = Json("quiz_submit", 200, "", <<>>)
           ELSE /\ UNCHANGED <<table, now>>
                /\ response' = Json("quiz_submit", 500, "ValueError", <<>>)
        /\ UNCHANGED questions
        /\ UNCHANGED chess

\* Mutant: the rows come in the order of their timestamps.
ByTimestamp(x, y, tie) ==
    \/ x.row.timestamp < y.row.timestamp
    \/ /\ x.row.timestamp = y.row.timestamp
       /\ IF tie = "first" THEN x.id < y.id ELSE x.id > y.id

\* ORDER BY score DESC, timestamp ASC: row x comes before row y.  SQL leaves
\* the order of rows equal in both open; tie says which of them the engine
\* puts first, the one inserted first or the one inserted last.
OrderBy(x, y, tie) ==
    \/ x.row.score > y.row.score
    \/ /\ x.row.score = y.row.score
       /\ \/ x.row.timestamp < y.row.timestamp
          \/ /\ x.row.timestamp = y.row.timestamp
             /\ IF tie = "first" THEN x.id < y.id ELSE x.id > y.id

\* SELECT name, score, total, timestamp ... ORDER BY ... LIMIT 50
Select50(rows, tie) ==
    LET numbered == [i \in 1..Len(rows) |-> [id |-> i, row |-> rows[i]]]
        sorted   == SortSeq(numbered, LAMBDA x, y : OrderBy(x, y, tie))
        n        == IF Len(rows) < RowLimit THEN Len(rows) ELSE RowLimit
    IN  [i \in 1..n |-> sorted[i].row]

\* api_leaderboard, whole handler.
Leaderboard(tie) ==
    /\ response' = Json("leaderboard", 200, "", Select50(table, tie))
    /\ UNCHANGED <<questions, table, now>>
    /\ UNCHANGED chess

QuizSubmitStep == \E payload \in Payloads, dt \in {0, 1} : QuizSubmit(payload, dt)
LeaderboardStep == \E tie \in {"first", "last"} : Leaderboard(tie)

InitBoard ==
    /\ InitChess
    /\ questions = <<>>
    /\ table \in Tables
    /\ now = Len(table) \div 10
    /\ response = NoResponse

NextBoard == QuizSubmitStep \/ LeaderboardStep

SpecBoard == InitBoard /\ [][NextBoard]_vars

(* ------------------------------- typing ------------------------------- *)

TypeOK ==
    /\ DOMAIN games \subseteq Rooms
    /\ \A r \in DOMAIN games : \A i \in DOMAIN games[r].players :
          games[r].players[i] \in Conns
    /\ \A r \in Rooms : channel[r] \subseteq Conns
    /\ \A p \in pending : p.sid \in Conns /\ p.room \in Rooms

(* ------------------------- claims: C1 .. C10 -------------------------- *)

Players(r) == { games[r].players[i] : i \in DOMAIN games[r].players }

AllMoveData == MoveData \cup MoveDataNoRoom \cup MoveDataNoUci \cup MoveDataOther

\* The serializations python-chess gives for positions of the model.
StartFen == "rnbqkbnr/pppppppp/8/8/8/8/PPPPPPPP/RNBQKBNR w KQkq - 0 1"
FenAfterE4 == "rnbqkbnr/pppppppp/8/8/4P3/8/PPPP1PPP/RNBQKBNR b KQkq - 0 1"
FenAfterE4Nf6 == "rnbqkb1r/pppppppp/5n2/8/4P3/8/PPPP1PPP/RNBQKBNR w KQkq - 1 2"

\* The step handles a make_move for the room of this payload: implied by
\* MakeMove(sid, data), and tested before it.  The sid of a make_move step is
\* last'.sid, so MakeMove(sid, data) is only tried for that sid.
ForRoom(data) == last'.room = RoomOf(data)
MoveStep == last'.op = "make_move"

\* A message to one connection alone.
Private(event, sid, fen, msg) ==
    [event |-> event, to |-> sid, rcpts |-> {sid}, fen |-> fen, uci |-> None,
     msg |-> msg]

\* C1: in every reachable state the stored game['fen'] of every room is the
\* serialization board.fen() of that room's current position.
C1_FenMatchesBoard ==
    \A r \in DOMAIN games : games[r].fen = Fen(games[r].board)

\* A room whose position was changed by an accepted move, with both fields
\* at the serialization after 1.e4 Nf6.
C1_Witness ==
    /\ last.op = "make_move" /\ last.res = "moved"
    /\ games[last.room].fen = FenAfterE4Nf6
    /\ Fen(games[last.room].board) = FenAfterE4Nf6

\* When a join handler that began while its room id had no Room finishes and
\* finds a Room made by a join handled concurrently, the joiner and another
\* connection are both in that Room's participants.
C2_BothJoined ==
    (last.op = "join_game" /\ last.first) =>
        /\ last.room \in DOMAIN games
        /\ last.sid \in Players(last.room)
        /\ \E c \in Players(last.room) : c # last.sid

\* Such a handler keeps the Room it finds: same board, same serialized
\* state, the earlier participants in their order, the joiner appended.
C2_RoomKept ==
    (last'.op = "join_game" /\ last'.first) =>
        /\ last'.room \in DOMAIN games
        /\ games'[last'.room].board = games[last'.room].board
        /\ games'[last'.room].fen = games[last'.room].fen
        /\ games'[last'.room].players =
              Append(games[last'.room].players, last'.sid)

\* C2: two join_game events for the same new room id handled concurrently
\* leave one Room for the id (the second handler does not replace the Room
\* the first one made) with both connection ids in its participants.
C2_ConcurrentFirstJoins == [](C2_BothJoined) /\ [][C2_RoomKept]_vars

C2_Witness ==
    /\ last.op = "join_game" /\ last.first
    /\ Players(last.room) = Conns
    /\ pending = {}

\* C3: a make_move that is legal in the room's position replaces the
\* position by the one after the move, recomputes the serialized state, and
\* broadcasts move_made with the submitted notation and the new serialized
\* state to (at least) every connection in the room's participants.
C3_LegalMoveBroadcast ==
    [][ MoveStep => \A sid \in {last'.sid}, data \in AllMoveData :
          LET room == RoomOf(data)
          IN  ( /\ ForRoom(data)
                /\ room \in DOMAIN games
                /\ IsLegal(games[room].board, FromUci(data))
                /\ MakeMove(sid, data) )
              => /\ games'[room].board = Push(games[room].board, FromUci(data))
                 /\ games'[room].board # games[room].board
                 /\ games'[room].fen = Fen(games'[room].board)
                 /\ (games[room].fen = StartFen /\ UciOf(data) = "e2e4")
                       => games'[room].fen = FenAfterE4
                 /\ \E m \in sent' :
                       /\ sent' = {m}
                       /\ m.event = "move_made"
                       /\ m.uci = UciOf(data)
                       /\ m.fen = games'[room].fen
                       /\ Players(room)' \subseteq m.rcpts
      ]_vars

\* A move was accepted in a room with two participants, and both got it.
C3_Witness ==
    /\ last.op = "make_move" /\ last.res = "moved"
    /\ Players(last.room) = Conns
    /\ \E m \in sent : m.event = "move_made" /\ m.rcpts = Conns
                       /\ m.fen = games[last.room].fen

\* C4: a well-formed move that is not legal in the current position of an
\* existing room (a pawn three squares forward is never legal) changes no
\* room, and the only message is 'illegal move' to the sender alone.
C4_IllegalMoveLocal ==
    [][ MoveStep => \A sid \in {last'.sid}, data \in AllMoveData :
          LET room == RoomOf(data)
          IN  ( /\ ForRoom(data)
                /\ room \in DOMAIN games
                /\ \E move \in {FromUci(data)} :
                      \/ UciOf(data) = "e2e5"
                      \/ move.ok /\ ~IsLegal(games[room].board, move)
                /\ MakeMove(sid, data) )
              => /\ games' = games
                 /\ sent' = {Private("invalid_move", sid, None, "illegal move")}
      ]_vars

\* An illegal move was refused in a room that has another participant.
C4_Witness ==
    /\ last.op = "make_move" /\ last.res = "illegal"
    /\ Players(last.room) = Conns
    /\ games[last.room].fen = FenAfterE4
    /\ sent = {Private("invalid_move", last.sid, None, "illegal move")}

\* Payloads whose move notation cannot be parsed.
Unparsable(data) ==
    \/ "uci" \notin DOMAIN data
    \/ data.uci = <<>>
    \/ Len(data.uci) = 6

\* C5: a make_move on an existing room whose notation cannot be parsed (the
\* empty string, a missing field, six characters) changes no room, and the
\* only message is 'invalid uci' to the sender alone.
C5_MalformedMoveLocal ==
    [][ MoveStep => \A sid \in {last'.sid}, data \in AllMoveData :
          ( /\ ForRoom(data)
            /\ RoomOf(data) \in DOMAIN games
            /\ Unparsable(data)
            /\ MakeMove(sid, data) )
          => /\ games' = games
             /\ sent' = {Private("invalid_move", sid, None, "invalid uci")}
      ]_vars

\* A malformed move was refused in a room with two participants where black
\* is to move.
C5_Witness ==
    /\ last.op = "make_move" /\ last.res = "malformed"
    /\ Players(last.room) = Conns
    /\ games[last.room].fen = FenAfterE4
    /\ sent = {Private("invalid_move", last.sid, None, "invalid uci")}

\* C6: after reset_game the room has the starting position, its
\* serialization as serialized state and no participants, and the state
\* emitted is that serialization, whatever the room was before.
C6_ResetToStart ==
    last.op = "reset_game" =>
        /\ last.room \in DOMAIN games
        /\ games[last.room].board = NewBoard
        /\ games[last.room].fen = StartFen
        /\ games[last.room].players = <<>>
        /\ \E m \in sent : sent = {m} /\ m.event = "game_state" /\ m.fen = StartFen

\* A reset of a room that had accepted moves and participants.
C6_Witness ==
    /\ last.op = "reset_game" /\ last.prior = "played"
    /\ games[last.room].players = <<>>
    /\ channel[last.room] = Conns

\* C7: make_move for a room id without a Room changes nothing in the
\* registry (no Room is made, none is changed) and its only message is the
\* 'game not found' notice to the sender alone.
C7_MoveRoomNotFound ==
    [][ MoveStep => \A sid \in {last'.sid}, data \in AllMoveData :
          ( /\ ForRoom(data)
            /\ RoomOf(data) \notin DOMAIN games
            /\ MakeMove(sid, data) )
          => /\ games' = games
             /\ sent' = {Private("error", sid, None, "game not found")}
      ]_vars

\* The notice was sent for a room id without a Room while a connection sits
\* in that id's channel and the other room exists.
C7_Witness ==
    /\ last.op = "make_move" /\ last.res = "not_found"
    /\ last.room \notin DOMAIN games
    /\ channel[last.room] # {}
    /\ DOMAIN games # {}
    /\ sent = {Private("error", last.sid, None, "game not found")}

\* C8 as claimed: reset_game for a room id without a Room answers the sender
\* with a room-not-found notice, makes no Room and broadcasts nothing.
C8_ResetRoomNotFound ==
    (last.op = "reset_game" /\ last.prior = "absent") =>
        /\ last.room \notin DOMAIN games
        /\ \A m \in sent : m.to = last.sid /\ m.event = "error"

\* C8 amended: reset_game for a room id without a Room makes a fresh Room
\* for it (starting position, no participants) and broadcasts game_state
\* with the starting serialization to the room's channel; no notice goes to
\* the sender.
C8_ResetCreatesRoom ==
    (last.op = "reset_game" /\ last.prior = "absent") =>
        /\ last.room \in DOMAIN games
        /\ games[last.room] = [board |-> NewBoard, players |-> <<>>, fen |-> StartFen]
        /\ sent = {[event |-> "game_state", to |-> last.room,
                    rcpts |-> channel[last.room], fen |-> StartFen,
                    uci |-> None, msg |-> ""]}

C8_Witness ==
    /\ last.op = "reset_game" /\ last.prior = "absent"
    /\ last.room \in DOMAIN games
    /\ channel[last.room] = {}

NoDuplicates(players) ==
    \A i, j \in DOMAIN players : players[i] = players[j] => i = j

C9_Unique == \A r \in DOMAIN games : NoDuplicates(games[r].players)

C9_RejoinKeeps ==
    \A p \in pending :
        ( /\ last'.op = "join_game"
          /\ p.room \in DOMAIN games
          /\ InList(p.sid, games[p.room].players)
          /\ JoinFinish(p) )
        => games'[p.room].players = games[p.room].players

\* C9: no connection id occurs twice in a room's participants, and a
\* join_game by a connection already in them leaves them unchanged.
C9_NoDuplicateParticipants == [](C9_Unique) /\ [][C9_RejoinKeeps]_vars

\* A connection joined a room it was already in, next to another one.
C9_Witness ==
    /\ last.op = "join_game" /\ last.res = "present"
    /\ Len(games[last.room].players) = 2

\* C10: a join_game on a room id that has a Room keeps that Room's position
\* and serialized state and every participant, and the only message of the
\* handler is game_state with that state to the joining connection alone.
C10_JoinReusesRoom ==
    [][ /\ \A p \in pending :
            (last'.op = "join_game" /\ p.room \in DOMAIN games /\ JoinFinish(p))
            => /\ games'[p.room].board = games[p.room].board
               /\ games'[p.room].fen = games[p.room].fen
               /\ Players(p.room) \subseteq Players(p.room)'
               /\ \A r \in DOMAIN games : r # p.room => games'[r] = games[r]
               /\ sent' = {Private("game_state", p.sid, games[p.room].fen, "")}
        /\ \A in \in JoinInputs :
            (last'.op = "join_game" /\ JoinEnter(in[1], in[2])) => sent' = {}
      ]_vars

\* A connection joined, as second participant, a room in which a move had
\* been accepted, and it alone got the state after that move.
C10_Witness ==
    /\ last.op = "join_game" /\ last.res = "added"
    /\ Players(last.room) = Conns
    /\ games[last.room].fen = FenAfterE4
    /\ sent = {Private("game_state", last.sid, FenAfterE4, "")}

(* ------------------------- claims: C11 .. C20 ------------------------- *)

\* The serialized state of the latest move_made broadcast for the room since
\* its creation or last reset; the starting serialization without one.
LatestFen(room) ==
    IF log[room] = <<>> THEN StartFen ELSE log[room][Len(log[room])].fen

\* The reply of a finished join carries the state of the latest accepted move.
C11_ReplyIsLatest ==
    (last.op = "join_game" /\ last.res \in {"created", "added", "present"}) =>
        sent = {Private("game_state", last.sid, LatestFen(last.room), "")}

\* A rejected move leaves what a join of any room would be answered with.
C11_RejectedKeeps ==
    (MoveStep /\ last'.res \in {"illegal", "malformed", "not_found"}) =>
        /\ log' = log
        /\ \A r \in Rooms : (JoinLookup(r).fen)' = JoinLookup(r).fen

\* C11: the reply to a join_game carries the serialized state broadcast by
\* the most recently accepted move of the room (the starting state when no
\* move was accepted since its creation or last reset), and a rejected move
\* never changes the state a join is answered with.
C11_JoinSeesLatestMove == [](C11_ReplyIsLatest) /\ [][C11_RejectedKeeps]_vars

\* A connection joined a room after two accepted moves and was answered with
\* the state of the second.
C11_Witness ==
    /\ last.op = "join_game" /\ last.res = "added"
    /\ Len(log[last.room]) = 2
    /\ log[last.room][1].fen = FenAfterE4
    /\ sent = {Private("game_state", last.sid, FenAfterE4Nf6, "")}

\* The move a broadcast notation stands for.
MovesByText ==
    [uci \in {UciOf(d) : d \in AllMoveData} |->
        FromUci(CHOOSE d \in AllMoveData : UciOf(d) = uci)]

MoveOfText(uci) == MovesByText[uci]

\* The position after the broadcast moves, applied oldest first.
RECURSIVE Replay(_, _)
Replay(board, entries) ==
    IF entries = <<>> THEN board
    ELSE Replay(Push(board, MoveOfText(Head(entries).uci)), Tail(entries))

\* Every broadcast move was legal in the position its predecessors left.
RECURSIVE ReplayLegal(_, _)
ReplayLegal(board, entries) ==
    \/ entries = <<>>
    \/ /\ IsLegal(board, MoveOfText(Head(entries).uci))
       /\ ReplayLegal(Push(board, MoveOfText(Head(entries).uci)), Tail(entries))

\* The position of a room is the starting position with the moves of its
\* move_made broadcasts applied in the order of the broadcasts.
C12_PositionIsReplay ==
    \A r \in DOMAIN games :
        /\ games[r].board = Replay(NewBoard, log[r])
        /\ ReplayLegal(NewBoard, log[r])

\* Every make_move that follows an accepted move is judged on the position
\* of the room when its handler runs (the one the earlier accepted moves
\* left), is accepted exactly if it is legal there, and is applied to that
\* position or not at all.
C12_Validated ==
    MoveStep => \A sid \in {last'.sid}, data \in AllMoveData :
        LET room == RoomOf(data)
        IN  ( /\ ForRoom(data)
              /\ room \in DOMAIN games
              /\ log[room] # <<>>
              /\ MakeMove(sid, data) )
            => \E move \in {FromUci(data)} :
                  IF IsLegal(games[room].board, move)
                  THEN /\ last'.res = "moved"
                       /\ games'[room].board = Push(games[room].board, move)
                       /\ log'[room] =
                             Append(log[room], [uci |-> UciOf(data),
                                                fen |-> Fen(games'[room].board)])
                  ELSE /\ last'.res \in {"illegal", "malformed"}
                       /\ games'[room].board = games[room].board
                       /\ log'[room] = log[room]

\* C12: make_move attempts on a room are serialized: each is validated
\* against, and applied to, the position left by the attempts before it, and
\* the position always is the starting position (since creation or the last
\* reset) with the accepted moves applied in the order of their move_made
\* broadcasts.
C12_MovesSerialized == [](C12_PositionIsReplay) /\ [][C12_Validated]_vars

\* A second move, legal only in the position the first one left, was
\* accepted after it.
C12_Witness ==
    /\ last.op = "make_move" /\ last.res = "moved"
    /\ log[last.room] = << [uci |-> "e2e4", fen |-> FenAfterE4],
                           [uci |-> "g8f6", fen |-> FenAfterE4Nf6] >>
    /\ games[last.room].board = Replay(NewBoard, log[last.room])

\* C13: the game_state of a reset_game goes to the room's channel, so every
\* connection in the room's participants before the reset receives the
\* starting serialization, although the participants are empty afterwards.
C13_ResetReachesParticipants ==
    [][ \A in \in ResetInputs :
          LET room == RoomOf(in[2])
          IN  ( /\ last'.op = "reset_game"
                /\ last'.sid = in[1]
                /\ last'.room = room
                /\ Reset(in[1], in[2]) )
              => /\ games'[room].players = <<>>
                 /\ \E m \in sent' :
                       /\ sent' = {m}
                       /\ m.event = "game_state"
                       /\ m.fen = StartFen
                       /\ m.to = room
                       /\ m.rcpts = channel[room]
                       /\ room \in DOMAIN games => Players(room) \subseteq m.rcpts
      ]_vars

\* A room with both connections as participants and an accepted move was
\* reset by one of them, and both got the starting state.
C13_Witness ==
    /\ last.op = "reset_game" /\ last.prior = "played"
    /\ games[last.room].players = <<>>
    /\ \E m \in sent : m.rcpts = Conns /\ m.fen = StartFen /\ m.event = "game_state"

\* The payload with its room id set.
WithRoom(data, room) ==
    [k \in (DOMAIN data) \cup {"room"} |-> IF k = "room" THEN room ELSE data[k]]

\* C14: an event whose payload has no room id is handled exactly as the same
\* event with the room id 'default' (each step of a handler on the one is a
\* step of it on the other), and it reads and writes the registry entry and
\* the channel of 'default' only.
C14_OmittedIsDefault ==
    [][ \A sid \in {last'.sid} :
          /\ last'.op = "join_game" =>
                (JoinEnter(sid, NoRoomData) <=> JoinEnter(sid, WithRoom(NoRoomData, "default")))
          /\ last'.op = "make_move" =>
                \A data \in OmittedMoveData :
                    MakeMove(sid, data) <=> MakeMove(sid, WithRoom(data, "default"))
          /\ last'.op = "reset_game" =>
                (Reset(sid, NoRoomData) <=> Reset(sid, WithRoom(NoRoomData, "default")))
          /\ last'.room = "default"
          /\ DOMAIN games' \subseteq {"default"}
          /\ \A r \in Rooms \ {"default"} : channel'[r] = {}
          /\ \A m \in sent' : m.to \in {sid, "default"}
      ]_vars

\* Connections that never named a room share the Room 'default': both are
\* its participants and the move of one was broadcast to its channel.
C14_Witness ==
    /\ last.op = "make_move" /\ last.res = "moved"
    /\ DOMAIN games = {"default"}
    /\ Players("default") = Conns
    /\ \E m \in sent : m.to = "default" /\ m.rcpts = Conns /\ m.event = "move_made"

\* C15: a room id that has a Room in the registry has one in every later
\* state: no step of a join, move or reset removes a key of games.
C15_RoomsPersist ==
    [][ \A r \in DOMAIN games : r \in DOMAIN games' ]_vars

\* Both rooms exist after one that had accepted moves was reset.
C15_Witness ==
    /\ last.op = "reset_game" /\ last.prior = "played"
    /\ DOMAIN games = Rooms
    /\ games[last.room].board = NewBoard

\* C16: the serialized state an accepted make_move answers with (in its
\* move_made broadcast, and as stored for the room) differs from the room's
\* serialized state immediately before the move.
C16_AcceptedMoveChangesFen ==
    [][ (MoveStep /\ last'.res = "moved") =>
          /\ last'.room \in DOMAIN games
          /\ games'[last'.room].fen # games[last'.room].fen
          /\ \E m \in sent' :
                /\ sent' = {m}
                /\ m.event = "move_made"
                /\ m.fen # games[last'.room].fen
                /\ m.fen = Fen(Push(games[last'.room].board, MoveOfText(m.uci)))
      ]_vars

\* Two moves were accepted one after the other; the state each was answered
\* with differs from the state before it.
C16_Witness ==
    /\ last.op = "make_move" /\ last.res = "moved"
    /\ Len(log[last.room]) = 2
    /\ log[last.room][1].fen # StartFen
    /\ log[last.room][2].fen # log[last.room][1].fen
    /\ \E m \in sent : m.fen = log[last.room][2].fen

\* The elements of a sequence.
Range(seq) == { seq[i] : i \in DOMAIN seq }

\* C17: the quiz start request answers a bank of fewer than 15 questions
\* with the error 'Not enough questions in bank' and status 400 and no
\* question at all, and a bank of at least 15 with exactly 15 questions of
\* the bank, no question twice.
C17_QuizSample ==
    response # NoResponse =>
        IF Len(questions) < 15
        THEN response = [route |-> "quiz_start", status |-> 400,
                         error |-> "Not enough questions in bank", body |-> <<>>]
        ELSE /\ response.status = 200
             /\ response.error = ""
             /\ Len(response.body) = 15
             /\ Range(response.body) \subseteq Range(questions)
             /\ Cardinality(Range(response.body)) = 15

\* A bank one question short of a quiz was answered with the error.
C17_Witness ==
    /\ Len(questions) = 14
    /\ response.status = 400
    /\ response.body = <<>>

\* How often a row occurs in a sequence of rows.
Count(rows, v) == Cardinality({ i \in DOMAIN rows : rows[i] = v })

\* What a leaderboard GET answers on the table it reads: at most 50 rows (50
\* when there are that many), each a row of the table and no more often than
\* the table holds it, by falling score and among equal scores by rising
\* timestamp, and no row left out has a higher score than a row returned.
C18_TopRows ==
    (response'.route = "leaderboard" /\ table' = table) =>
        LET body == response'.body
        IN  /\ response'.status = 200
            /\ Len(body) <= 50
            /\ Len(body) = (IF Len(table) < 50 THEN Len(table) ELSE 50)
            /\ \A v \in Range(body) : Count(body, v) <= Count(table, v)
            /\ \A i, j \in DOMAIN body :
                  i < j => \/ body[i].score > body[j].score
                           \/ /\ body[i].score = body[j].score
                              /\ body[i].timestamp <= body[j].timestamp
            /\ \A v \in Range(table) :
                  Count(body, v) < Count(table, v) =>
                      \A w \in Range(body) : v.score <= w.score

\* Every step keeps the rows of the table and can only add rows at its end.
C18_AppendOnly ==
    /\ Len(table) <= Len(table')
    /\ SubSeq(table', 1, Len(table)) = table

\* C18: after any submissions the leaderboard GET returns at most 50
\* submitted rows, by score descending and earlier timestamp first among
\* equal scores, leaving out no row with a higher score than a returned one;
\* rows are only ever appended to the table.
C18_Leaderboard == [][C18_TopRows /\ C18_AppendOnly]_vars

\* A GET on a table of more than 50 rows: 50 came back, the best score
\* submitted last on top, and a row of the table was left out.
C18_Witness ==
    /\ response.route = "leaderboard"
    /\ Len(table) > 50
    /\ Len(response.body) = 50
    /\ response.body[1].name = "B"
    /\ table[Len(table)].name = "B"
    /\ \E v \in Range(table) : v \notin Range(response.body)

\* C19: a step of a join_game, make_move or reset_game for room id r leaves
\* the entry of every other room id as it is (none is changed, made or
\* removed), and every message of the step goes to the originating
\* connection or to connections in the channel of r.
C19_RoomsIsolated ==
    [][ LET r == last'.room
        IN  /\ \A other \in Rooms \ {r} :
                  /\ other \in DOMAIN games' <=> other \in DOMAIN games
                  /\ other \in DOMAIN games => games'[other] = games[other]
                  /\ channel'[other] = channel[other]
            /\ \A m \in sent' : \A c \in m.rcpts :
                  c = last'.sid \/ c \in channel'[r]
      ]_vars

\* A move was broadcast in one room while the other room, with an accepted
\* move of its own, has a connection that is in no other channel; that
\* connection got nothing.
C19_Witness ==
    /\ last.op = "make_move" /\ last.res = "moved" /\ last.room = "default"
    /\ last.sid = "a"
    /\ channel["r1"] = {"b"} /\ channel["default"] = {"a"}
    /\ "r1" \in DOMAIN games
    /\ games["r1"].fen = FenAfterE4
    /\ games["r1"].players = <<"b">>
    /\ sent # {}
    /\ \A m \in sent : m.rcpts = {"a"}

\* C20: no make_move changes the participants of any room, and a legal move
\* sent by a connection that is not in the room's participants is applied
\* and broadcast to the room's channel like the move of a participant.
C20_MoveIgnoresParticipants ==
    [][ MoveStep =>
          /\ DOMAIN games' = DOMAIN games
          /\ \A r \in DOMAIN games : games'[r].players = games[r].players
          /\ \A sid \in {last'.sid}, data \in AllMoveData :
                LET room == RoomOf(data)
                IN  ( /\ ForRoom(data)
                      /\ room \in DOMAIN games
                      /\ sid \notin Players(room)
                      /\ IsLegal(games[room].board, FromUci(data))
                      /\ MakeMove(sid, data) )
                    => /\ last'.res = "moved"
                       /\ games'[room].board = Push(games[room].board, FromUci(data))
                       /\ games'[room].fen = Fen(games'[room].board)
                       /\ sent' = {[event |-> "move_made", to |-> room,
                                    rcpts |-> channel[room],
                                    fen |-> games'[room].fen,
                                    uci |-> UciOf(data), msg |-> ""]}
      ]_vars

\* A connection that never joined the room, and is not in its channel,
\* made a move there; the move was applied and the participant got it.
C20_Witness ==
    /\ last.op = "make_move" /\ last.res = "moved"
    /\ last.sid \notin channel[last.room]
    /\ Players(last.room) = Conns \ {last.sid}
    /\ games[last.room].fen = FenAfterE4
    /\ \E m \in sent : m.event = "move_made" /\ m.rcpts = Players(last.room)

=============================================================================
